---- MODULE Spec2Model ----
(***************************************************************************)
(* kazoo/handlers/threading.py: AsyncResult (a one-shot result with        *)
(* waiters and completion callbacks) and SequentialThreadingHandler (three *)
(* queues, one worker thread each, start/stop, dispatch_callback).         *)
(*                                                                         *)
(* One AsyncResult bound to one handler.  Client threads call the public   *)
(* methods; a call that holds a lock across several statements, or that    *)
(* blocks, is split into steps at those points.                            *)
(***************************************************************************)
EXTENDS Integers, Sequences, FiniteSets, TLC

\* ------------------------------------------------------------------ bounds
\* client calls on the AsyncResult (set, set_exception, get, wait, rawlink, unlink)
MaxFutureOps == 4
\* client calls of dispatch_callback
MaxDispatch == 3
\* calls of start and stop that find the handler in the other state
MaxLifecycle == 3
\* calls of dispatch_callback made while start and stop race
MaxBusy == 2

\* ------------------------------------------------------------ value spaces
Threads == {"t1", "t2", "t3"}
NoThread == "nobody"
\* callbacks handed to rawlink/unlink, and what each does when it is called
OkCallbacks == {"cbA", "cbB"}
Callbacks == OkCallbacks \cup {"cbBlock"}
CallbackBeh(c) == IF c = "cbBlock" THEN "block" ELSE "ok"
Values == {"v1", "v2"}
Errors == {"e1"}
\* what a dispatched func does: return, raise, never return
Behaviours == {"ok", "raise", "block"}
Types == {"session", "watch"}
Lanes == {"completion", "callback", "session"}

\* the sentinels _NONE and _STOP, and Python's None
NONE_SENTINEL == "_NONE"
PyNone == "None"
StopItem == [id |-> 0, src |-> "stop", type |-> "-", beh |-> "-", cb |-> "-", cell |-> 0]

VARIABLES
  \* AsyncResult
  value,        \* self.value
  exception,    \* self._exception
  callbacks,    \* self._callbacks
  condOwner,    \* holder of self._condition's lock
  cells,        \* the closure cell "callback" of each set/set_exception call
  \* SequentialThreadingHandler
  queue,        \* completion_queue, callback_queue, session_queue
  running,      \* self._running
  stateOwner,   \* holder of self._state_change
  workers,      \* self._workers (indices into wthreads)
  wthreads,     \* every worker thread created so far: [lane, pc, cur]
  \* client threads
  pc,           \* where each client thread is
  loc,          \* the locals of the call it is in
  result,       \* what its last get or wait returned or raised
  \* budgets and history
  used,         \* calls made so far, per family
  nextId,       \* per lane, the number of the next work item put on it
  hist          \* history of the run (never read by the program); held: the
                \* items on the lanes that were dispatched with _running
                \* false since the last start

vars == <<value, exception, callbacks, condOwner, cells, queue, running,
          stateOwner, workers, wthreads, pc, loc, result, used, nextId, hist>>

futureVars == <<value, exception, callbacks, condOwner, cells>>
handlerVars == <<queue, running, stateOwner, workers, wthreads>>

\* ---------------------------------------------------------------- helpers
NoLoc == [i |-> 0, cell |-> 0, block |-> FALSE, tmo |-> FALSE,
          readyAtCall |-> FALSE, readyAtEnter |-> FALSE]
\* after: "enter" for a decision at the first test, "wait" for one after Condition.wait
NoResult == [op |-> "none", kind |-> "none", val |-> "none", after |-> "none"]

IsPrefix(s, t) == Len(s) <= Len(t) /\ \A k \in 1..Len(s) : s[k] = t[k]
Range(s) == {s[k] : k \in 1..Len(s)}
\* no reverse(): the list as it is
SeqKeep(s) == s
RECURSIVE SeqReverse(_)
SeqReverse(s) == IF s = <<>> THEN <<>> ELSE Append(SeqReverse(Tail(s)), Head(s))
\* list.remove(x): drops the first occurrence
RECURSIVE ListRemove(_, _)
ListRemove(s, x) ==
  IF s = <<>> THEN <<>>
  ELSE IF Head(s) = x THEN Tail(s) ELSE <<Head(s)>> \o ListRemove(Tail(s), x)

\* ready() that asks for success: false again once an exception is stored
ReadyIfSuccessful == exception = PyNone

\* AsyncResult.ready
Ready == exception # NONE_SENTINEL
\* AsyncResult.successful
Successful == exception = PyNone

Init ==
  /\ value = PyNone
  /\ exception = NONE_SENTINEL
  /\ callbacks = <<>>
  /\ condOwner = NoThread
  /\ cells = <<>>
  /\ queue = [l \in Lanes |-> <<>>]
  /\ running = FALSE
  /\ stateOwner = NoThread
  /\ workers = <<>>
  /\ wthreads = <<>>
  /\ pc = [t \in Threads |-> "idle"]
  /\ loc = [t \in Threads |-> NoLoc]
  /\ result = [t \in Threads |-> NoResult]
  /\ used = [future |-> 0, dispatch |-> 0, lifecycle |-> 0]
  /\ nextId = [l \in Lanes |-> 1]
  /\ hist = [enq |-> [l \in Lanes |-> <<>>],
             exe |-> [l \in Lanes |-> <<>>],
             enqRet |-> [l \in Lanes |-> <<>>],
             exeRet |-> [l \in Lanes |-> <<>>],
             dropped |-> [l \in Lanes |-> {}],
             stops |-> 0,
             invoked |-> [c \in Callbacks |-> 0],
             invokedBy |-> {},
             resolutions |-> 0,
             setRunning |-> TRUE,
             regAtSet |-> <<>>,
             rawReady |-> [c \in Callbacks |-> 0],
             unlinked |-> {},
             registered |-> {},
             joined |-> <<>>,
             held |-> {}]

\* ------------------------------------------------------------ work items
DispatchItem(id, type, beh) ==
  [id |-> id, src |-> "dispatch", type |-> type, beh |-> beh, cb |-> "-", cell |-> 0]
\* lambda: callback(self) made in set/set_exception: "callback" is the loop
\* variable of that call, read through its closure cell when the lambda runs
SetItem(id, cell) ==
  [id |-> id, src |-> "set", type |-> "-", beh |-> "-", cb |-> "-", cell |-> cell]
\* lambda: callback(self) made in rawlink: "callback" is rawlink's parameter
RawlinkItem(id, c) ==
  [id |-> id, src |-> "rawlink", type |-> "-", beh |-> "-", cb |-> c, cell |-> 0]

\* Queue.put on the handler's current queue object of a lane
QueuePut(q, l, it) == [q EXCEPT ![l] = Append(@, it)]
HistPut(h, l, it) ==
  [h EXCEPT !.enq[l] = Append(@, it), !.enqRet[l] = Append(@, it)]

\* the callback a completion item calls when it runs
CalleeOf(it) == IF it.src = "set" THEN cells[it.cell] ELSE it.cb
\* what running an item does: return, raise, or never return
BehaviourOf(it) ==
  IF it.src = "dispatch" THEN it.beh ELSE CallbackBeh(CalleeOf(it))

\* ------------------------------------------------- AsyncResult.set (57-67)
\* notify() in place of notify_all(): one waiter is woken
NotifyOne(p) ==
  IF \E t \in Threads : p[t] \in {"get_wait", "wait_wait"}
  THEN LET t == CHOOSE u \in Threads : p[u] \in {"get_wait", "wait_wait"}
       IN [p EXCEPT ![t] = IF p[t] = "get_wait" THEN "get_woken" ELSE "wait_woken"]
  ELSE p

\* self._condition.notify_all(): every thread in Condition.wait is woken
NotifyAll(p) ==
  [t \in Threads |-> IF p[t] = "get_wait" THEN "get_woken"
                     ELSE IF p[t] = "wait_wait" THEN "wait_woken"
                     ELSE p[t]]

\* with self._condition: self.value = value; self._exception = None
SetBegin(t, v) ==
  /\ pc[t] = "idle"
  /\ used.future < MaxFutureOps
  /\ condOwner = NoThread
  /\ condOwner' = t
  /\ value' = v
  /\ exception' = PyNone
  /\ cells' = Append(cells, "unbound")
  /\ loc' = [loc EXCEPT ![t] = [NoLoc EXCEPT !.i = 1, !.cell = Len(cells) + 1]]
  /\ pc' = [pc EXCEPT ![t] = "set_loop"]
  /\ used' = [used EXCEPT !.future = @ + 1]
  /\ hist' = [hist EXCEPT !.resolutions = @ + 1,
                          !.regAtSet = IF hist.resolutions = 0 THEN callbacks ELSE @,
                          !.setRunning = @ /\ running]
  /\ UNCHANGED <<callbacks, handlerVars, result, nextId>>

\* with self._condition: self._exception = exception
SetExceptionBegin(t, e) ==
  /\ pc[t] = "idle"
  /\ used.future < MaxFutureOps
  /\ condOwner = NoThread
  /\ condOwner' = t
  /\ exception' = e
  /\ cells' = Append(cells, "unbound")
  /\ loc' = [loc EXCEPT ![t] = [NoLoc EXCEPT !.i = 1, !.cell = Len(cells) + 1]]
  /\ pc' = [pc EXCEPT ![t] = "set_loop"]
  /\ used' = [used EXCEPT !.future = @ + 1]
  /\ hist' = [hist EXCEPT !.resolutions = @ + 1,
                          !.regAtSet = IF hist.resolutions = 0 THEN callbacks ELSE @,
                          !.setRunning = @ /\ running]
  /\ UNCHANGED <<value, callbacks, handlerVars, result, nextId>>

\* one turn of "for callback in self._callbacks: completion_queue.put(lambda: callback(self))"
SetLoop(t) ==
  /\ pc[t] = "set_loop"
  /\ loc[t].i <= Len(callbacks)
  /\ cells' = [cells EXCEPT ![loc[t].cell] = callbacks[loc[t].i]]
  /\ queue' = QueuePut(queue, "completion", SetItem(nextId["completion"], loc[t].cell))
  /\ hist' = HistPut(hist, "completion", SetItem(nextId["completion"], loc[t].cell))
  /\ nextId' = [nextId EXCEPT !["completion"] = @ + 1]
  /\ loc' = [loc EXCEPT ![t].i = @ + 1]
  /\ UNCHANGED <<value, exception, callbacks, condOwner, running, stateOwner,
                 workers, wthreads, pc, result, used>>

\* the loop is over: self._condition.notify_all(), and the with block ends
SetNotify(t) ==
  /\ pc[t] = "set_loop"
  /\ loc[t].i > Len(callbacks)
  /\ pc' = [NotifyAll(pc) EXCEPT ![t] = "idle"]
  /\ loc' = [loc EXCEPT ![t] = NoLoc]
  /\ condOwner' = NoThread
  /\ UNCHANGED <<value, exception, callbacks, cells, handlerVars, result,
                 used, nextId, hist>>

\* ------------------------------------------------ AsyncResult.get (80-99)
\* get with the second test of _exception left out: value whenever ready
GetOutcomeNoRaise(exc, val) ==
  IF exc # NONE_SENTINEL THEN [kind |-> "return", val |-> val]
  ELSE [kind |-> "raise", val |-> "TimeoutError"]

\* the outcome get decides on, under the lock, from _exception and value
GetOutcome(exc, val) ==
  IF exc # NONE_SENTINEL
  THEN IF exc = PyNone THEN [kind |-> "return", val |-> val]
       ELSE [kind |-> "raise", val |-> exc]
  ELSE [kind |-> "raise", val |-> "TimeoutError"]
GetResult(after) ==
  [op |-> "get", kind |-> GetOutcome(exception, value).kind,
   val |-> GetOutcome(exception, value).val, after |-> after]

\* get(block, timeout) is called
GetCall(t, block, tmo) ==
  /\ pc[t] = "idle"
  /\ used.future < MaxFutureOps
  /\ pc' = [pc EXCEPT ![t] = "get_enter"]
  /\ loc' = [loc EXCEPT ![t] = [NoLoc EXCEPT !.block = block, !.tmo = tmo,
                                             !.readyAtCall = Ready]]
  /\ result' = [result EXCEPT ![t] = NoResult]
  /\ used' = [used EXCEPT !.future = @ + 1]
  /\ UNCHANGED <<futureVars, handlerVars, nextId, hist>>

\* with self._condition: the first test of _exception; block decides the rest
GetEnter(t) ==
  /\ pc[t] = "get_enter"
  /\ condOwner = NoThread
  /\ IF Ready \/ ~loc[t].block
     THEN /\ result' = [result EXCEPT ![t] = GetResult("enter")]
          /\ pc' = [pc EXCEPT ![t] = "idle"]
     ELSE /\ pc' = [pc EXCEPT ![t] = "get_wait"]
          /\ UNCHANGED result
  /\ UNCHANGED <<futureVars, handlerVars, loc, used, nextId, hist>>

\* self._condition.wait(timeout) returned and took the lock again
GetResume(t) ==
  /\ pc[t] = "get_woken"
  /\ condOwner = NoThread
  /\ result' = [result EXCEPT ![t] = GetResult("wait")]
  /\ pc' = [pc EXCEPT ![t] = "idle"]
  /\ UNCHANGED <<futureVars, handlerVars, loc, used, nextId, hist>>

\* ---------------------------------------------- AsyncResult.wait (109-113)
WaitCall(t, tmo) ==
  /\ pc[t] = "idle"
  /\ used.future < MaxFutureOps
  /\ pc' = [pc EXCEPT ![t] = "wait_enter"]
  /\ loc' = [loc EXCEPT ![t] = [NoLoc EXCEPT !.tmo = tmo, !.readyAtCall = Ready]]
  /\ result' = [result EXCEPT ![t] = NoResult]
  /\ used' = [used EXCEPT !.future = @ + 1]
  /\ UNCHANGED <<futureVars, handlerVars, nextId, hist>>

\* with self._condition: self._condition.wait(timeout), with no test before it
WaitEnter(t) ==
  /\ pc[t] = "wait_enter"
  /\ condOwner = NoThread
  /\ pc' = [pc EXCEPT ![t] = "wait_wait"]
  /\ loc' = [loc EXCEPT ![t].readyAtEnter = Ready]
  /\ UNCHANGED <<futureVars, handlerVars, result, used, nextId, hist>>

\* Condition.wait returned, the with block ends: return self._exception is not _NONE
WaitResume(t) ==
  /\ pc[t] = "wait_woken"
  /\ condOwner = NoThread
  /\ result' = [result EXCEPT ![t] = [op |-> "wait", kind |-> "return",
                                      val |-> IF Ready THEN "True" ELSE "False",
                                      after |-> "wait"]]
  /\ pc' = [pc EXCEPT ![t] = "idle"]
  /\ UNCHANGED <<futureVars, handlerVars, loc, used, nextId, hist>>

\* a timeout that wakes every waiter of the condition, not only its own
WaitTimeoutWakesAll(t) ==
  /\ pc[t] \in {"get_wait", "wait_wait"}
  /\ loc[t].tmo
  /\ pc' = NotifyAll(pc)
  /\ UNCHANGED <<futureVars, handlerVars, loc, result, used, nextId, hist>>

\* the timeout of a Condition.wait(timeout) elapses before any notify
WaitTimeout(t) ==
  /\ pc[t] \in {"get_wait", "wait_wait"}
  /\ loc[t].tmo
  /\ pc' = [pc EXCEPT ![t] = IF pc[t] = "get_wait" THEN "get_woken" ELSE "wait_woken"]
  /\ UNCHANGED <<futureVars, handlerVars, loc, result, used, nextId, hist>>

\* rawlink without "with self._condition": it does not wait for a set in progress
RawlinkUnlocked(t, c) ==
  /\ pc[t] = "idle"
  /\ used.future < MaxFutureOps
  /\ IF Ready
     THEN /\ queue' = QueuePut(queue, "completion", RawlinkItem(nextId["completion"], c))
          /\ hist' = [HistPut(hist, "completion", RawlinkItem(nextId["completion"], c))
                        EXCEPT !.rawReady[c] = @ + 1, !.unlinked = @ \ {c}]
          /\ nextId' = [nextId EXCEPT !["completion"] = @ + 1]
          /\ UNCHANGED callbacks
     ELSE /\ callbacks' = IF c \in Range(callbacks) THEN callbacks
                          ELSE Append(callbacks, c)
          /\ hist' = [hist EXCEPT !.unlinked = @ \ {c}, !.registered = @ \cup {c}]
          /\ UNCHANGED <<queue, nextId>>
  /\ used' = [used EXCEPT !.future = @ + 1]
  /\ UNCHANGED <<value, exception, condOwner, cells, running, stateOwner,
                 workers, wthreads, pc, loc, result>>

\* rawlink without the return after the immediate dispatch: a ready result
\* also gets the callback appended
RawlinkNoReturn(t, c) ==
  /\ pc[t] = "idle"
  /\ used.future < MaxFutureOps
  /\ condOwner = NoThread
  /\ IF Ready
     THEN /\ queue' = QueuePut(queue, "completion", RawlinkItem(nextId["completion"], c))
          /\ hist' = [HistPut(hist, "completion", RawlinkItem(nextId["completion"], c))
                        EXCEPT !.rawReady[c] = @ + 1, !.unlinked = @ \ {c}]
          /\ nextId' = [nextId EXCEPT !["completion"] = @ + 1]
     ELSE /\ hist' = [hist EXCEPT !.unlinked = @ \ {c}]
          /\ UNCHANGED <<queue, nextId>>
  /\ callbacks' = IF c \in Range(callbacks) THEN callbacks ELSE Append(callbacks, c)
  /\ used' = [used EXCEPT !.future = @ + 1]
  /\ UNCHANGED <<value, exception, condOwner, cells, running, stateOwner,
                 workers, wthreads, pc, loc, result>>

\* ------------------------------------------- AsyncResult.rawlink (115-126)
Rawlink(t, c) ==
  /\ pc[t] = "idle"
  /\ used.future < MaxFutureOps
  /\ condOwner = NoThread
  /\ IF Ready
     THEN /\ queue' = QueuePut(queue, "completion", RawlinkItem(nextId["completion"], c))
          /\ hist' = [HistPut(hist, "completion", RawlinkItem(nextId["completion"], c))
                        EXCEPT !.rawReady[c] = @ + 1, !.unlinked = @ \ {c}]
          /\ nextId' = [nextId EXCEPT !["completion"] = @ + 1]
          /\ UNCHANGED callbacks
     ELSE /\ callbacks' = IF c \in Range(callbacks) THEN callbacks
                          ELSE Append(callbacks, c)
          /\ hist' = [hist EXCEPT !.unlinked = @ \ {c}, !.registered = @ \cup {c}]
          /\ UNCHANGED <<queue, nextId>>
  /\ used' = [used EXCEPT !.future = @ + 1]
  /\ UNCHANGED <<value, exception, condOwner, cells, running, stateOwner,
                 workers, wthreads, pc, loc, result>>

\* unlink with the readiness test inverted: removes only once ready
UnlinkInverted(t, c) ==
  /\ pc[t] = "idle"
  /\ used.future < MaxFutureOps
  /\ condOwner = NoThread
  /\ IF ~Ready
     THEN /\ hist' = [hist EXCEPT !.unlinked = @ \cup {c}]
          /\ UNCHANGED callbacks
     ELSE /\ callbacks' = IF c \in Range(callbacks) THEN ListRemove(callbacks, c)
                          ELSE callbacks
          /\ UNCHANGED hist
  /\ used' = [used EXCEPT !.future = @ + 1]
  /\ UNCHANGED <<value, exception, condOwner, cells, handlerVars, pc, loc,
                 result, nextId>>

\* -------------------------------------------- AsyncResult.unlink (128-136)
Unlink(t, c) ==
  /\ pc[t] = "idle"
  /\ used.future < MaxFutureOps
  /\ condOwner = NoThread
  /\ IF Ready
     THEN UNCHANGED <<callbacks, hist>>
     ELSE /\ callbacks' = IF c \in Range(callbacks) THEN ListRemove(callbacks, c)
                          ELSE callbacks
          /\ hist' = [hist EXCEPT !.unlinked = @ \cup {c}]
  /\ used' = [used EXCEPT !.future = @ + 1]
  /\ UNCHANGED <<value, exception, condOwner, cells, handlerVars, pc, loc,
                 result, nextId>>

\* ------------------------------- SequentialThreadingHandler worker (182-202)
\* the order of "for queue in (completion_queue, callback_queue, session_queue)"
LaneOrder == <<"completion", "callback", "session">>
\* the order of the three assignments that end stop
ClearOrder == <<"callback", "session", "completion">>

\* a queue that hands out its newest item first
QueueGetNewest(q) == [item |-> q[Len(q)], rest |-> SubSeq(q, 1, Len(q) - 1)]

\* queue.get() on a Queue.Queue: the oldest item, which leaves the queue
QueueGet(q) == [item |-> Head(q), rest |-> Tail(q)]

\* func = queue.get(); if func is _STOP: break (task_done in the finally)
WorkerGet(w) ==
  /\ w \in 1..Len(wthreads)
  /\ wthreads[w].pc = "get"
  /\ queue[wthreads[w].lane] # <<>>
  /\ LET l == wthreads[w].lane
         func == QueueGet(queue[l]).item
     IN /\ queue' = [queue EXCEPT ![l] = QueueGet(queue[l]).rest]
        /\ wthreads' = [wthreads EXCEPT ![w] =
                          IF func = StopItem
                          THEN [@ EXCEPT !.pc = "exited"]
                          ELSE [@ EXCEPT !.pc = "run", !.cur = func]]
  /\ UNCHANGED <<futureVars, running, stateOwner, workers, pc, loc, result,
                 used, nextId, hist>>

\* a worker thread that ends after its first func()
AfterRunOnce(beh) == IF beh = "block" THEN "blocked" ELSE "dead"

\* where func() leaves the worker: back at queue.get(), dead from the
\* exception (only Queue.Empty is caught), or inside func() for ever
AfterRun(beh) ==
  IF beh = "ok" THEN "get" ELSE IF beh = "raise" THEN "dead" ELSE "blocked"

\* the record of a call of func() by the worker of lane l
HistRun(h, l, func) ==
  [h EXCEPT !.exe[l] = Append(@, func),
            !.exeRet[l] = Append(@, func),
            !.invoked = IF func.src = "dispatch" THEN @
                        ELSE [@ EXCEPT ![CalleeOf(func)] = @ + 1],
            !.invokedBy = IF func.src = "dispatch" THEN @ ELSE @ \cup {l},
            !.held = @ \ {func}]

\* func()
WorkerRun(w) ==
  /\ w \in 1..Len(wthreads)
  /\ wthreads[w].pc = "run"
  /\ wthreads' = [wthreads EXCEPT ![w].pc = AfterRun(BehaviourOf(wthreads[w].cur))]
  /\ hist' = HistRun(hist, wthreads[w].lane, wthreads[w].cur)
  /\ UNCHANGED <<futureVars, queue, running, stateOwner, workers, pc, loc,
                 result, used, nextId>>

\* one turn of the worker's loop, queue.get() and func() together: between
\* the two the worker shares nothing with the other threads but the closure
\* cell func reads when it runs, and the queue only grows at its other end
WorkerTurn(w) ==
  /\ w \in 1..Len(wthreads)
  /\ wthreads[w].pc = "get"
  /\ queue[wthreads[w].lane] # <<>>
  /\ LET l == wthreads[w].lane
         func == QueueGet(queue[l]).item
     IN /\ queue' = [queue EXCEPT ![l] = QueueGet(queue[l]).rest]
        /\ IF func = StopItem
           THEN /\ wthreads' = [wthreads EXCEPT ![w].pc = "exited"]
                /\ UNCHANGED hist
           ELSE /\ wthreads' = [wthreads EXCEPT ![w].pc = AfterRun(BehaviourOf(func)),
                                                ![w].cur = func]
                /\ hist' = HistRun(hist, l, func)
  /\ UNCHANGED <<futureVars, running, stateOwner, workers, pc, loc, result,
                 used, nextId>>

\* ------------------------------------ SequentialThreadingHandler.start (204-218)
\* the worker threads start creates, in the order it creates them
NewWorkers == [k \in 1..Len(LaneOrder) |-> [lane |-> LaneOrder[k], pc |-> "get", cur |-> StopItem]]

\* start without "if self._running: return": three more workers every call
StartUnguarded(t) ==
  /\ pc[t] = "idle"
  /\ stateOwner = NoThread
  /\ used.lifecycle < MaxLifecycle
  /\ wthreads' = wthreads \o NewWorkers
  /\ workers' = workers \o [k \in 1..Len(LaneOrder) |-> Len(wthreads) + k]
  /\ running' = TRUE
  /\ used' = [used EXCEPT !.lifecycle = @ + 1]
  /\ hist' = [hist EXCEPT !.held = {}]
  /\ UNCHANGED <<futureVars, queue, stateOwner, pc, loc, result, nextId>>

\* start(), whole: it runs under self._state_change, touches no queue, and
\* the workers it creates act only once they exist
Start(t) ==
  /\ pc[t] = "idle"
  /\ stateOwner = NoThread
  /\ IF running
     THEN UNCHANGED <<wthreads, workers, running, used>>
     ELSE /\ used.lifecycle < MaxLifecycle
          /\ wthreads' = wthreads \o NewWorkers
          /\ workers' = workers \o [k \in 1..Len(LaneOrder) |-> Len(wthreads) + k]
          /\ running' = TRUE
          /\ used' = [used EXCEPT !.lifecycle = @ + 1]
  /\ hist' = IF running THEN hist ELSE [hist EXCEPT !.held = {}]
  /\ UNCHANGED <<futureVars, queue, stateOwner, pc, loc, result, nextId>>

\* ------------------------------------- SequentialThreadingHandler.stop (220-240)
\* with self._state_change: if not self._running: return; self._running = False;
\* and the first queue.put(_STOP)
StopBegin(t) ==
  /\ pc[t] = "idle"
  /\ stateOwner = NoThread
  /\ IF ~running
     THEN UNCHANGED <<stateOwner, pc, loc, running, used, queue>>
     ELSE /\ used.lifecycle < MaxLifecycle
          /\ stateOwner' = t
          /\ running' = FALSE
          /\ queue' = QueuePut(queue, LaneOrder[1], StopItem)
          /\ pc' = [pc EXCEPT ![t] = "stop_put"]
          /\ loc' = [loc EXCEPT ![t] = [NoLoc EXCEPT !.i = 2]]
          /\ used' = [used EXCEPT !.lifecycle = @ + 1]
  /\ UNCHANGED <<futureVars, workers, wthreads, result, nextId, hist>>

\* queue.put(_STOP) for the next lane; after the last, self._workers.reverse()
StopPut(t) ==
  /\ pc[t] = "stop_put"
  /\ queue' = QueuePut(queue, LaneOrder[loc[t].i], StopItem)
  /\ IF loc[t].i < Len(LaneOrder)
     THEN /\ loc' = [loc EXCEPT ![t].i = @ + 1]
          /\ UNCHANGED <<workers, pc>>
     ELSE /\ loc' = [loc EXCEPT ![t].i = 1]
          /\ workers' = SeqReverse(workers)
          /\ pc' = [pc EXCEPT ![t] = "stop_join"]
  /\ UNCHANGED <<futureVars, running, stateOwner, wthreads, result, used, nextId, hist>>

\* a join() that does not wait
FinishedAlways(w) == TRUE
\* a join() that returns only for a thread that left its loop at _STOP
FinishedByStopOnly(w) == wthreads[w].pc = "exited"

\* a thread that join() returns for: its run has ended
Finished(w) == wthreads[w].pc \in {"exited", "dead"}

\* worker = self._workers.pop(); worker.join()
StopJoin(t) ==
  /\ pc[t] = "stop_join"
  /\ workers # <<>>
  /\ Finished(workers[Len(workers)])
  /\ workers' = SubSeq(workers, 1, Len(workers) - 1)
  /\ hist' = [hist EXCEPT !.joined = Append(@, wthreads[workers[Len(workers)]].lane)]
  /\ UNCHANGED <<futureVars, queue, running, stateOwner, wthreads, pc, loc,
                 result, used, nextId>>

\* stop without the three assignments that end it: the lane keeps its queue
KeptQueue(old) == old

\* Queue.Queue(): the lane's new queue object
FreshQueue(old) == <<>>

\* "while self._workers" is over; the next lane gets its new queue, and after
\* the last the with block ends: stop returns
StopClear(t) ==
  /\ pc[t] = "stop_join"
  /\ workers = <<>>
  /\ LET l == ClearOrder[loc[t].i]
         last == loc[t].i = Len(ClearOrder)
     IN /\ queue' = [queue EXCEPT ![l] = FreshQueue(@)]
        /\ hist' = [hist EXCEPT
                      !.dropped[l] = @ \cup (Range(queue[l]) \ {StopItem}),
                      !.held = @ \ Range(queue[l]),
                      !.enq[l] = <<>>,
                      !.exe[l] = <<>>,
                      !.stops = IF last THEN @ + 1 ELSE @,
                      !.enqRet = IF last THEN [k \in Lanes |-> <<>>] ELSE @,
                      !.exeRet = IF last THEN [k \in Lanes |-> <<>>] ELSE @]
        /\ stateOwner' = IF last THEN NoThread ELSE stateOwner
        /\ pc' = [pc EXCEPT ![t] = IF last THEN "idle" ELSE @]
        /\ loc' = [loc EXCEPT ![t] = IF last THEN NoLoc ELSE [@ EXCEPT !.i = @ + 1]]
  /\ UNCHANGED <<futureVars, running, workers, wthreads, result, used, nextId>>

\* ----------------------- SequentialThreadingHandler.dispatch_callback (259-269)
\* one queue for every dispatched callback
LaneOfShared(type) == "callback"

LaneOf(type) == IF type = "session" THEN "session" ELSE "callback"

Dispatch(t, type, beh) ==
  /\ pc[t] = "idle"
  /\ used.dispatch < MaxDispatch
  /\ LET l == LaneOf(type)
         it == DispatchItem(nextId[l], type, beh)
     IN /\ queue' = QueuePut(queue, l, it)
        /\ hist' = [HistPut(hist, l, it) EXCEPT
                      !.held = IF running THEN @ ELSE @ \cup {it}]
        /\ nextId' = [nextId EXCEPT ![l] = @ + 1]
  /\ used' = [used EXCEPT !.dispatch = @ + 1]
  /\ UNCHANGED <<futureVars, running, stateOwner, workers, wthreads, pc, loc, result>>

\* ---------------------------------------------------------- specifications
\* who calls what: t1 owns the handler and the result (start, stop, set,
\* set_exception, rawlink, unlink); t2 and t3 consume (get, wait) and dispatch
Owners == {"t1"}
Consumers == {"t2", "t3"}
\* get(block=False), get(), get(timeout=x)
GetModes == {<<FALSE, FALSE>>, <<TRUE, FALSE>>, <<TRUE, TRUE>>}

\* the AsyncResult and its callbacks on the completion lane of a handler
\* that is started once: set, set_exception, rawlink, unlink, the workers
NextCallbacks ==
  \/ \E t \in Owners : Start(t)
  \/ \E t \in Owners, v \in Values : SetBegin(t, v)
  \/ \E t \in Owners, e \in Errors : SetExceptionBegin(t, e)
  \/ \E t \in Threads : SetLoop(t)
  \/ \E t \in Threads : SetNotify(t)
  \/ \E t \in Threads, c \in OkCallbacks : Rawlink(t, c)
  \/ \E t \in Threads, c \in OkCallbacks : Unlink(t, c)
  \/ \E w \in 1..Len(wthreads) : WorkerGet(w)
  \/ \E w \in 1..Len(wthreads) : WorkerRun(w)

SpecCallbacks == Init /\ [][NextCallbacks]_vars

\* the AsyncResult and its waiters: set, set_exception, get, wait
NextWaiters ==
  \/ \E t \in Owners, v \in Values : SetBegin(t, v)
  \/ \E t \in Owners, e \in Errors : SetExceptionBegin(t, e)
  \/ \E t \in Owners : SetLoop(t)
  \/ \E t \in Owners : SetNotify(t)
  \/ \E t \in Owners, c \in OkCallbacks : Rawlink(t, c)
  \/ \E t \in Consumers, m \in GetModes : GetCall(t, m[1], m[2])
  \/ \E t \in Consumers : GetEnter(t)
  \/ \E t \in Consumers : GetResume(t)
  \/ \E t \in Consumers, tmo \in BOOLEAN : WaitCall(t, tmo)
  \/ \E t \in Consumers : WaitEnter(t)
  \/ \E t \in Consumers : WaitResume(t)
  \/ \E t \in Consumers : WaitTimeout(t)

SpecWaiters == Init /\ [][NextWaiters]_vars

\* every operation of the AsyncResult: the owner resolves, links and unlinks,
\* the consumers get and wait
NextFuture ==
  \/ \E t \in Owners, v \in Values : SetBegin(t, v)
  \/ \E t \in Owners, e \in Errors : SetExceptionBegin(t, e)
  \/ \E t \in Owners : SetLoop(t)
  \/ \E t \in Owners : SetNotify(t)
  \/ \E t \in Owners, c \in OkCallbacks : Rawlink(t, c)
  \/ \E t \in Consumers, m \in GetModes : GetCall(t, m[1], m[2])
  \/ \E t \in Consumers : GetEnter(t)
  \/ \E t \in Consumers : GetResume(t)
  \/ \E t \in Consumers, tmo \in BOOLEAN : WaitCall(t, tmo)
  \/ \E t \in Consumers : WaitEnter(t)
  \/ \E t \in Consumers : WaitResume(t)
  \/ \E t \in Consumers : WaitTimeout(t)
  \/ \E t \in Owners, c \in OkCallbacks : Unlink(t, c)

SpecFuture == Init /\ [][NextFuture]_vars

\* the handler through start, stop and restart, with dispatch_callback and
\* the AsyncResult putting work on the three lanes meanwhile
Dispatchers == {"t2"}
Resolvers == {"t3"}
\* here MaxDispatch bounds the calls that put work on a lane, whichever lane
LanesBudget == used.future + used.dispatch < MaxDispatch
NextLanes ==
  \/ \E t \in Owners : Start(t)
  \/ \E t \in Owners : StopBegin(t)
  \/ \E t \in Owners : StopPut(t)
  \/ \E t \in Owners : StopJoin(t)
  \/ \E t \in Owners : StopClear(t)
  \/ \E t \in Dispatchers, ty \in Types, beh \in {"ok", "raise"} :
       LanesBudget /\ Dispatch(t, ty, beh)
  \/ \E t \in Resolvers, v \in {"v1"} : LanesBudget /\ SetBegin(t, v)
  \/ \E t \in Resolvers : SetLoop(t)
  \/ \E t \in Resolvers : SetNotify(t)
  \/ \E t \in Resolvers, c \in {"cbA"} : LanesBudget /\ Rawlink(t, c)
  \/ \E w \in 1..Len(wthreads) : WorkerTurn(w)

SpecLanes == Init /\ [][NextLanes]_vars

\* a started handler that is never stopped, with work that may never return:
\* dispatched funcs of every behaviour, and callbacks registered on the
\* resolved result
NextIsolation ==
  \/ \E t \in Owners : Start(t)
  \/ \E t \in Dispatchers, ty \in Types, beh \in Behaviours :
       LanesBudget /\ Dispatch(t, ty, beh)
  \/ \E t \in Resolvers, v \in {"v1"} : LanesBudget /\ SetBegin(t, v)
  \/ \E t \in Resolvers : SetNotify(t)
  \/ \E t \in Resolvers, c \in {"cbA", "cbBlock"} : LanesBudget /\ Ready /\ Rawlink(t, c)
  \/ \E w \in 1..Len(wthreads) : WorkerTurn(w)

SpecIsolation == Init /\ [][NextIsolation]_vars

\* the code's scheduling: a thread inside a call goes on when it can (a lock
\* is free, a notify or a timeout came), and a worker thread runs when it can;
\* nothing obliges a client to make a further call
Continue(t) ==
  \/ SetLoop(t) \/ SetNotify(t)
  \/ GetEnter(t) \/ GetResume(t)
  \/ WaitEnter(t) \/ WaitResume(t) \/ WaitTimeout(t)

FairWaiters == SpecWaiters /\ \A t \in Threads : WF_vars(Continue(t))

\* the worker threads a run can come to have
WorkerIds == 1..(Len(LaneOrder) * MaxLifecycle)
FairIsolation ==
  /\ SpecIsolation
  /\ \A t \in Threads : WF_vars(Continue(t))
  /\ \A w \in WorkerIds : WF_vars(WorkerTurn(w))

\* start and stop called from several threads, in any interleaving, with
\* dispatched funcs of every behaviour; a worker's queue.get() and its func()
\* are separate steps, so that a func is seen while it runs
\* the threads that call start and stop
Controllers == {"t1", "t3"}
\* here MaxBusy bounds the calls of dispatch_callback
LifecycleBudget == used.dispatch < MaxBusy
NextLifecycle ==
  \/ \E t \in Controllers : Start(t)
  \/ \E t \in Controllers : StopBegin(t)
  \/ \E t \in Controllers : StopPut(t)
  \/ \E t \in Controllers : StopJoin(t)
  \/ \E t \in Controllers : StopClear(t)
  \/ \E t \in Dispatchers, ty \in Types, beh \in Behaviours :
       LifecycleBudget /\ Dispatch(t, ty, beh)
  \/ \E w \in 1..Len(wthreads) : WorkerGet(w)
  \/ \E w \in 1..Len(wthreads) : WorkerRun(w)

SpecLifecycle == Init /\ [][NextLifecycle]_vars

\* one thread starts and stops the handler while another dispatches funcs
\* that return or raise
NextShutdown ==
  \/ \E t \in Owners : Start(t)
  \/ \E t \in Owners : StopBegin(t)
  \/ \E t \in Owners : StopPut(t)
  \/ \E t \in Owners : StopJoin(t)
  \/ \E t \in Owners : StopClear(t)
  \/ \E t \in Dispatchers, ty \in Types, beh \in {"ok", "raise"} :
       LifecycleBudget /\ Dispatch(t, ty, beh)
  \/ \E w \in 1..Len(wthreads) : WorkerTurn(w)

SpecShutdown == Init /\ [][NextShutdown]_vars

\* the thread inside stop goes on when it can, and so does every worker
StopContinue(t) == StopPut(t) \/ StopJoin(t) \/ StopClear(t)
FairShutdown ==
  /\ SpecShutdown
  /\ \A t \in Threads : WF_vars(StopContinue(t))
  /\ \A w \in WorkerIds : WF_vars(WorkerTurn(w))

\* ------------------------------------------------------------------ claims
CompletionDrained ==
  /\ queue["completion"] = <<>>
  /\ \A w \in 1..Len(wthreads) :
       wthreads[w].lane = "completion" => wthreads[w].pc = "get"
  /\ \A t \in Threads : pc[t] # "set_loop"

\* C1: when the result is resolved exactly once, with the handler running,
\* every callback registered before the resolution is invoked exactly once,
\* by the completion worker:
\* never more often than once plus its registrations made after the
\* resolution, and exactly that often once the completion lane has drained.
C1_RegisteredRunOnce ==
  (hist.resolutions = 1 /\ hist.setRunning) =>
    /\ hist.invokedBy \subseteq {"completion"}
    /\ \A c \in Callbacks :
         hist.invoked[c] <= (IF c \in Range(hist.regAtSet) THEN 1 ELSE 0)
                            + hist.rawReady[c]
    /\ (running /\ CompletionDrained) =>
         \A c \in Range(hist.regAtSet) : hist.invoked[c] = 1 + hist.rawReady[c]

\* C2: from the first state in which the result is ready, value and
\* _exception never change.
C2_OutcomeFrozen ==
  [][Ready => (value' = value /\ exception' = exception)]_vars

\* C3: a wait() with no timeout that is in progress while the result is
\* ready eventually returns True.
C3_WaitReturns ==
  \A t \in Consumers :
    (pc[t] \in {"wait_enter", "wait_wait"} /\ ~loc[t].tmo /\ Ready)
      ~> (pc[t] = "idle" /\ result[t].op = "wait" /\ result[t].val = "True")

\* C6: what get returns or raises is decided by the state it reads under the
\* lock: the value iff _exception is None, the stored exception iff one is
\* stored, TimeoutError iff the result is pending, and then only at once for
\* block=False or after the wait; never TimeoutError when the result was
\* ready at the call.
C6_GetMatchesState ==
  [][\A t \in Consumers :
       (pc[t] \in {"get_enter", "get_woken"} /\ pc'[t] = "idle") =>
         /\ result'[t].op = "get"
         /\ (result'[t].kind = "return") <=> (exception = PyNone)
         /\ (result'[t].kind = "return") => (result'[t].val = value)
         /\ (result'[t].kind = "raise" /\ result'[t].val # "TimeoutError")
              <=> (exception \in Errors)
         /\ (exception \in Errors) => (result'[t].val = exception)
         /\ (result'[t].val = "TimeoutError") <=> (exception = NONE_SENTINEL)
         /\ (result'[t].val = "TimeoutError") =>
              (~loc[t].readyAtCall /\ (~loc[t].block \/ pc[t] = "get_woken"))
    ]_vars
\* a get that blocked on the pending result and was woken returned its value
C6_Witness ==
  \E t \in Consumers :
    /\ result[t].op = "get" /\ result[t].after = "wait"
    /\ result[t].kind = "return" /\ result[t].val = value

\* C7: threads blocked without timeout in get() or wait() since before the
\* resolution are all released, and after a single resolution each get has
\* the stored outcome and each wait True.
BlockedSincePending(t) ==
  /\ pc[t] \in {"get_wait", "wait_wait"}
  /\ ~loc[t].tmo
  /\ ~loc[t].readyAtEnter
ReleasedWithOutcome(t) ==
  /\ pc[t] = "idle"
  /\ \/ hist.resolutions > 1
     \/ result[t].op = "get" /\ result[t].kind = GetOutcome(exception, value).kind
                             /\ result[t].val = GetOutcome(exception, value).val
     \/ result[t].op = "wait" /\ result[t].val = "True"
C7_AllWaitersReleased ==
  \A t \in Consumers : (BlockedSincePending(t) /\ Ready) ~> ReleasedWithOutcome(t)
\* both consumers were blocked and both have been released by one resolution
C7_Witness ==
  /\ hist.resolutions = 1
  /\ \A t \in Consumers : pc[t] = "idle" /\ result[t].after = "wait"
  /\ \E t \in Consumers : result[t].op = "get" /\ result[t].val = value
  /\ \E t \in Consumers : result[t].op = "wait" /\ result[t].val = "True"

\* C8: rawlink on a ready result puts exactly one item calling the callback
\* at the end of the completion queue, returns at once without any callback
\* having been called, and leaves _callbacks as it was.
C8_RawlinkReadyDispatches ==
  [][\A t \in Threads, c \in Callbacks :
       (Ready /\ Rawlink(t, c)) =>
         /\ queue' = [queue EXCEPT !["completion"] = Append(@, RawlinkItem(nextId["completion"], c))]
         /\ callbacks' = callbacks
         /\ hist'.invoked = hist.invoked
         /\ pc'[t] = "idle"
    ]_vars
\* an item of a rawlink made after the resolution has been run by the worker
C8_Witness ==
  \E k \in 1..Len(hist.exe["completion"]) :
    /\ hist.exe["completion"][k].src = "rawlink"
    /\ hist.invoked[hist.exe["completion"][k].cb] >= 1
    /\ ~(hist.exe["completion"][k].cb \in Range(callbacks))

\* C9: a callback whose unlink completed while the result was pending, and
\* that was not registered again, is never invoked; an unlink on a ready
\* result changes neither _callbacks, nor the outcome, nor the queues.
C9_UnlinkedNeverRuns ==
  /\ [](\A c \in hist.unlinked : hist.invoked[c] = 0)
  /\ [][\A t \in Threads, c \in Callbacks :
          (Ready /\ Unlink(t, c)) =>
            /\ callbacks' = callbacks
            /\ value' = value /\ exception' = exception
            /\ queue' = queue
       ]_vars
\* one callback was unlinked while pending, another stayed and has been run
C9_Witness ==
  /\ Ready
  /\ hist.unlinked \cap hist.registered # {}
  /\ \E c \in Range(hist.regAtSet) : hist.invoked[c] = 1

\* C4: dispatch_callback puts an item of type 'session' on the session queue
\* and any other on the callback queue, and what the worker of a lane has run
\* is always a prefix of what was put on that lane: same order, none left
\* out, none twice.
C4_LaneFifo ==
  /\ \A k \in 1..Len(hist.enq["session"]) :
       hist.enq["session"][k].src = "dispatch" /\ hist.enq["session"][k].type = "session"
  /\ \A k \in 1..Len(hist.enq["callback"]) :
       hist.enq["callback"][k].src = "dispatch" /\ hist.enq["callback"][k].type # "session"
  /\ \A k \in 1..Len(hist.enq["completion"]) : hist.enq["completion"][k].src # "dispatch"
  /\ \A l \in Lanes : IsPrefix(hist.exe[l], hist.enq[l])
\* before any stop, two items of the callback lane and one of the session
\* lane have been run
C4_Witness ==
  /\ hist.stops = 0 /\ running
  /\ Len(hist.exe["callback"]) >= 2
  /\ Len(hist.exe["session"]) >= 1

\* the items of a category in the order they were put, whichever lane holds them
KindOf(it) == IF it.src = "dispatch" THEN it.type ELSE "completion"
Kinds == {"session", "watch", "completion"}
ItemsOfKind(k) ==
  LET Sel(l) == SelectSeq(hist.enq[l], LAMBDA it : KindOf(it) = k)
  IN Sel("session") \o Sel("callback") \o Sel("completion")
Executed == UNION {Range(hist.exe[l]) : l \in Lanes}
FixedBehaviour(it) == IF it.src = "dispatch" THEN it.beh ELSE CallbackBeh(it.cb)

\* C5: on a running handler that is not stopped, an item of one category is
\* eventually run when the items of its own category put before it return
\* without error, whatever the items of the other two categories do.
C5_LanesIsolated ==
  \A kind \in Kinds, k \in 1..(MaxDispatch + 1) :
    (/\ running
     /\ Len(ItemsOfKind(kind)) >= k
     /\ \A j \in 1..(k - 1) : FixedBehaviour(ItemsOfKind(kind)[j]) = "ok")
      ~> (Len(ItemsOfKind(kind)) >= k /\ ItemsOfKind(kind)[k] \in Executed)
\* the callback worker is inside a call that never returns, and the session
\* worker has since run an item put on its lane after that call began
C5_Witness ==
  /\ \E w \in 1..Len(wthreads) : wthreads[w].lane = "callback" /\ wthreads[w].pc = "blocked"
  /\ Len(hist.exe["session"]) >= 2

\* C10 as stated: once a stop() has returned, a lane holds and runs only
\* what was put on it since that return (so the lanes are empty when stop
\* returns), in order.
C10_NothingOlderThanStopReturn ==
  hist.stops > 0 =>
    \A l \in Lanes :
      /\ Range(queue[l]) \ {StopItem} \subseteq Range(hist.enqRet[l])
      /\ IsPrefix(hist.exeRet[l], hist.enqRet[l])

\* C10, amended: an item that was on a lane when stop() replaced the lane's
\* queue is on no lane and is never run afterwards, also not after a later
\* start(); a lane holds and runs only what was put on it since its queue
\* was replaced, in order.
C10_ReplacedItemsNeverRun ==
  \A l \in Lanes :
    /\ Range(queue[l]) \cap hist.dropped[l] = {}
    /\ Range(hist.exe[l]) \cap hist.dropped[l] = {}
    /\ Range(queue[l]) \ {StopItem} \subseteq Range(hist.enq[l])
    /\ IsPrefix(hist.exe[l], hist.enq[l])
\* after a stop that dropped an item and a restart, the lane has run a later item
C10_Witness ==
  /\ hist.stops > 0 /\ running
  /\ \E l \in Lanes : hist.dropped[l] # {} /\ hist.exe[l] # <<>>

\* C11: an item dispatched while _running is false is neither run nor lost
\* before the next start(): no step but that start takes it off its lane,
\* where the worker the start creates finds it.
C11_HeldUntilStart ==
  [][\A it \in hist.held : it \in Range(queue'[LaneOf(it.type)])]_vars

\* C12: start() on a running handler and stop() on a stopped one change
\* nothing (no worker, no _STOP, no new queue), whichever threads call them
\* and however the calls interleave; whenever no start or stop is executing,
\* _workers holds three workers, one per lane, if running and none if not.
C12_LifecycleIdempotent ==
  /\ [](stateOwner = NoThread =>
          /\ Len(workers) = (IF running THEN Len(LaneOrder) ELSE 0)
          /\ \A j, k \in 1..Len(workers) :
               wthreads[workers[j]].lane = wthreads[workers[k]].lane => j = k)
  /\ [][\A t \in Threads :
          /\ (running /\ Start(t)) =>
               UNCHANGED <<workers, wthreads, running, queue, stateOwner>>
          /\ (~running /\ StopBegin(t)) =>
               UNCHANGED <<workers, wthreads, running, queue, stateOwner>>
       ]_vars
\* stopped and started again, by two different threads at work at once
C12_Witness ==
  /\ hist.stops >= 1 /\ running /\ stateOwner = NoThread
  /\ Len(workers) = Len(LaneOrder) /\ Len(wthreads) = 2 * Len(LaneOrder)

\* C13: ready() is false as long as neither set nor set_exception was called,
\* and once true it stays true through every later set, set_exception, get,
\* wait, rawlink and unlink.
C13_ReadyMonotone ==
  /\ [](hist.resolutions = 0 => ~Ready)
  /\ [][Ready => Ready']_vars
\* ready after a set and a later set_exception, with a get answered meanwhile
C13_Witness ==
  /\ Ready /\ hist.resolutions >= 2 /\ exception \in Errors
  /\ \E t \in Consumers : result[t].op = "get" /\ result[t].kind = "return"

\* a get or wait of thread t ends by timeout in this step
EndsByTimeout(t) ==
  /\ pc[t] \in {"get_enter", "get_woken", "wait_woken"}
  /\ pc'[t] = "idle"
  /\ result'[t].val \in {"TimeoutError", "False"}

\* C14: the expiry of a timeout, and the return of a get or wait that ends
\* by timeout (a get(block=False) on a pending result included), change
\* neither value, _exception, _callbacks nor any queue and leave every other
\* thread where it is; the result is pending after the return, and a thread
\* blocked meanwhile is still released by a later resolution.
C14_TimeoutLeavesNoTrace ==
  /\ [][\A t \in Consumers :
          /\ (WaitTimeout(t) \/ EndsByTimeout(t)) =>
               /\ UNCHANGED <<value, exception, callbacks, queue>>
               /\ \A u \in Threads \ {t} : pc'[u] = pc[u]
          /\ EndsByTimeout(t) => (~Ready /\ ~Ready')
       ]_vars
  /\ \A t \in Consumers :
       (/\ BlockedSincePending(t)
        /\ \E u \in Consumers \ {t} : result[u].val \in {"TimeoutError", "False"}
        /\ Ready)
         ~> (pc[t] = "idle" /\ result[t].after = "wait")
\* one thread timed out of its get on the pending result; the other, blocked
\* without timeout, was released with the value by the resolution
C14_Witness ==
  \E t, u \in Consumers :
    /\ t # u
    /\ result[u].op = "get" /\ result[u].val = "TimeoutError" /\ result[u].after = "wait"
    /\ pc[t] = "idle" /\ ~loc[t].tmo /\ ~loc[t].readyAtEnter
    /\ result[t].op = "get" /\ result[t].after = "wait" /\ result[t].kind = "return"

\* a worker thread that is still in its loop
Alive(w) == wthreads[w].pc \in {"get", "run", "blocked"}

\* C15: while _running is true, every lane has exactly one worker thread
\* alive to run the lane's next item, whatever the funcs run so far did,
\* raising included.
C15_OneLiveWorkerPerLane ==
  running =>
    \A l \in Lanes :
      Cardinality({w \in 1..Len(wthreads) : wthreads[w].lane = l /\ Alive(w)}) = 1

\* stop has joined every worker and has not yet replaced any queue
AllJoined(t) == pc[t] = "stop_join" /\ workers = <<>> /\ loc[t].i = 1
NoneRaised(l) ==
  \A k \in 1..Len(hist.exe[l]) : BehaviourOf(hist.exe[l][k]) # "raise"

\* C16: when stop has joined the workers, on every lane on which no func
\* raised, _STOP has been taken and all that was put on the lane before it
\* has been run, in the order it was put; what is left on the lane, and
\* dropped with it, is what was put behind _STOP.
C16_DrainedBeforeStopReturns ==
  \A t \in Threads :
    AllJoined(t) =>
      \A l \in Lanes :
        NoneRaised(l) =>
          /\ ~(StopItem \in Range(queue[l]))
          /\ hist.exe[l] \o queue[l] = hist.enq[l]
\* the workers are joined: a lane has run the two items put before its _STOP
\* and still holds one put behind it
C16_Witness ==
  \E t \in Threads, l \in Lanes :
    /\ AllJoined(t) /\ NoneRaised(l)
    /\ Len(hist.exe[l]) >= 2 /\ queue[l] # <<>>

\* the worker threads of lane l that hold an item they took and whose func()
\* has not returned
Executing(l) ==
  {w \in 1..Len(wthreads) : wthreads[w].lane = l /\ wthreads[w].pc \in {"run", "blocked"}}

\* C17: through start, stop, restart and dispatch, a lane never has two
\* worker threads inside an item at once, and a worker takes an item only
\* when no item of its lane is being run.
C17_OneItemAtATime ==
  /\ [](\A l \in Lanes : Cardinality(Executing(l)) <= 1)
  /\ [][\A w \in 1..Len(wthreads) :
          (wthreads[w].pc = "get" /\ wthreads'[w].pc = "run") =>
            Executing(wthreads[w].lane) = {}
       ]_vars
\* a worker created by the second start is inside an item of a lane whose
\* first worker died from a raising func
C17_Witness ==
  \E v, w \in 1..Len(wthreads) :
    /\ v <= Len(LaneOrder) /\ w > Len(LaneOrder)
    /\ wthreads[v].lane = wthreads[w].lane
    /\ wthreads[v].pc = "dead" /\ wthreads[w].pc = "run"

\* what has been put on the completion queue, by the loop of set /
\* set_exception and by rawlink on the ready result
PutBySet == SelectSeq(hist.enq["completion"], LAMBDA it : it.src = "set")
PutByRawlink(c) ==
  SelectSeq(hist.enq["completion"], LAMBDA it : it.src = "rawlink" /\ it.cb = c)

\* C18: with one resolution, nothing is put on the completion queue before
\* it; its loop puts one item per callback registered before it, each made
\* for that callback, in the order of registration; every rawlink that finds
\* the result ready puts one item for its callback; and every item of the
\* loop is put ahead of every item of such a rawlink.
C18_RegisterAtomicWithResolution ==
  /\ [](hist.resolutions = 0 => hist.enq["completion"] = <<>>)
  /\ [](hist.resolutions = 1 =>
          /\ Len(PutBySet) <= Len(hist.regAtSet)
          /\ (\A t \in Threads : pc[t] # "set_loop") =>
               Len(PutBySet) = Len(hist.regAtSet)
          /\ \A c \in Callbacks : Len(PutByRawlink(c)) = hist.rawReady[c]
          /\ \A j, k \in 1..Len(hist.enq["completion"]) :
               (hist.enq["completion"][j].src = "rawlink" /\
                hist.enq["completion"][k].src = "set") => k < j)
  /\ [][\A t \in Threads :
          (hist.resolutions = 1 /\ SetLoop(t)) =>
            /\ Len(PutBySet)' = Len(PutBySet) + 1
            /\ cells'[loc[t].cell] = hist.regAtSet[Len(PutBySet) + 1]
       ]_vars
\* two callbacks were registered before the one resolution and one after:
\* three items, the two of the loop first
C18_Witness ==
  /\ hist.resolutions = 1 /\ \A t \in Threads : pc[t] # "set_loop"
  /\ Len(hist.regAtSet) = 2 /\ Len(PutBySet) = 2
  /\ \E c \in Callbacks : hist.rawReady[c] = 1
  /\ Len(hist.enq["completion"]) = 3

\* the lane of the k-th join when every stop joins in the order "order"
JoinedInOrder(order) ==
  \A k \in 1..Len(hist.joined) :
    hist.joined[k] = order[((k - 1) % Len(order)) + 1]

\* C19 as stated: every stop joins the workers in the reverse of the order
\* in which start created them: session, callback, completion.
C19_JoinsInReverseOfCreation == JoinedInOrder(SeqReverse(LaneOrder))

\* C19, amended: every stop joins the workers in the order in which start
\* created them: completion, callback, session.
C19_JoinsInCreationOrder == JoinedInOrder(LaneOrder)
\* a stop has joined all three workers and returned
C19_Witness == Len(hist.joined) >= Len(LaneOrder) /\ hist.stops >= 1

\* C20: a stop() that found the handler running returns: _running is false,
\* every worker thread has ended, _workers is empty and _state_change is
\* free; also when a worker had died from a raising func and when
\* dispatch_callback is called meanwhile.
C20_StopReturns ==
  \A t \in Owners :
    (pc[t] \in {"stop_put", "stop_join"})
      ~> (/\ pc[t] = "idle" /\ ~running /\ stateOwner = NoThread
          /\ workers = <<>>
          /\ \A w \in 1..Len(wthreads) : ~Alive(w))
\* a stop has returned although one worker had died from a raising func and
\* an item was dispatched behind _STOP meanwhile
C20_Witness ==
  /\ hist.stops >= 1 /\ ~running /\ stateOwner = NoThread
  /\ \E w \in 1..Len(wthreads) : wthreads[w].pc = "dead"
  /\ \E l \in Lanes : hist.dropped[l] # {}
====
